---- MODULE Spec2Model ----
(***************************************************************************)
(* Model of the genealogy benchmark core:                                  *)
(*   - generate_trees.py : generate_tree, verify_tree and main's retry     *)
(*     loop (specification Spec);                                          *)
(*   - generate_testcases.py : build_graph and find_relationships          *)
(*     (specifications SpecKin, SpecTwice, SpecBuild and SpecAbsent);      *)
(*   - the names and spouses generate_tree hands out, followed through     *)
(*     Node.to_dict into build_graph (specification SpecNames).            *)
(* Node ids are 1-based: node i is the Node whose name_idx is i - 1.       *)
(***************************************************************************)
EXTENDS Integers, Sequences, FiniteSets, TLC

\* ------------------------------------------------------------------ bounds
\* Largest target depth and target node count a request may carry.
MaxDepth == 4
MaxNodes == 7

\* Largest number of individuals, and of spouses, in a serialized tree given
\* to build_graph; the smaller tree size used when the engine is run twice.
MaxIndividuals == 5
MaxSpouses == 1
TwiceMaxIndividuals == 4

\* main(): max_retries = 20
max_retries == 20

VARIABLES
  pc,                    \* position in main's retry loop / generate_tree
  target_generations,    \* g, the requested depth
  target_nodes,          \* total_nodes, the requested node count
  attempt,               \* number of generate/verify attempts started
  generation,            \* node -> Node.generation
  children,              \* node -> Node.children (a list of nodes)
  node_depth_limits,     \* node -> allowed max depth
  nodes_created,         \* generate_tree's counter
  asymmetry_target_depth,\* A chosen in step 2 (0 before the choice)
  random_draws,          \* calls made to the random module so far
  results,               \* is_valid of every attempt verified so far
  success,               \* main's success flag
  written,               \* trees dumped to the output file, in order
  data,                  \* the serialized tree handed to build_graph
  kpc,                   \* position in process_file / find_relationships
  nodes,                 \* build_graph: set of all person names
  parent_map,            \* build_graph: child -> set of parents
  children_map,          \* build_graph: parent -> set of children
  spouse_map,            \* build_graph: person -> spouse
  rels,                  \* find_relationships: kind -> pairs collected
  todo,                  \* persons `for person in nodes` has yet to visit
  order,                 \* the order in which `nodes` is iterated (SpecTwice)
  first_rels,            \* relation table returned by the first call (SpecTwice)
  name_map,              \* node -> display name (generate_tree's name_map)
  node_spouse            \* node -> Node.spouse ("" while it is None)

treeVars == <<pc, target_generations, target_nodes, attempt, generation,
              children, node_depth_limits, nodes_created,
              asymmetry_target_depth, random_draws, results, success, written>>

kinVars == <<data, kpc, nodes, parent_map, children_map, spouse_map, rels,
             todo, order, first_rels>>

nameVars == <<name_map, node_spouse>>

vars == <<treeVars, nameVars, kinVars>>

\* ------------------------------------------------------------------ helpers
Max(S) == CHOOSE x \in S : \A y \in S : y <= x

Range(s) == { s[i] : i \in 1..Len(s) }

RECURSIVE Perms(_)
\* All orders random.shuffle can leave the elements of S in.
Perms(S) ==
  IF S = {} THEN { <<>> }
  ELSE UNION { { <<x>> \o p : p \in Perms(S \ {x}) } : x \in S }

RECURSIVE RemoveFirst(_, _)
\* list.remove(x): drop the first occurrence of x.
RemoveFirst(s, x) ==
  IF s = <<>> THEN <<>>
  ELSE IF Head(s) = x THEN Tail(s)
  ELSE <<Head(s)>> \o RemoveFirst(Tail(s), x)

\* ------------------------------------------------------------------ Node
RECURSIVE get_max_depth(_, _, _)
\* Node.get_max_depth on the tree (gen, ch), from node n.
get_max_depth(gen, ch, n) ==
  IF ch[n] = <<>> THEN gen[n]
  ELSE Max({ get_max_depth(gen, ch, ch[n][i]) : i \in 1..Len(ch[n]) })

RECURSIVE count_nodes(_, _)
RECURSIVE SumCounts(_, _)
SumCounts(ch, s) ==
  IF s = <<>> THEN 0 ELSE count_nodes(ch, Head(s)) + SumCounts(ch, Tail(s))

\* Node.count_nodes on the tree ch, from node n.
count_nodes(ch, n) == 1 + SumCounts(ch, ch[n])

\* ------------------------------------------------------------------ generate_tree
\* Step 1: root plus the main chain through generations 2..D.
MainBranchGenerations(D) == IF D < 1 THEN <<1>> ELSE [i \in 1..D |-> i]

MainBranchChildren(D) ==
  IF D < 1 THEN << <<>> >>
  ELSE [i \in 1..D |-> IF i < D THEN <<i + 1>> ELSE <<>>]

MainBranchLimits(D) == IF D < 1 THEN <<D>> ELSE [i \in 1..D |-> D]

\* Step 2: asymmetry_target_depth = max(2, target_generations - choice)
AsymmetryTargetDepth(D, k) == IF D - k > 2 THEN D - k ELSE 2

\* Variant of the budget test asking for strictly more nodes than the branch needs.
HasBranchBudget_Strict(N, created, needed) ==
  created < N /\ needed > 0 /\ (N - created) > needed

\* Step 2: the budget test guarding the second branch.
HasBranchBudget(N, created, needed) ==
  created < N /\ needed > 0 /\ (N - created) >= needed

\* Variant of the candidate test that ignores the depth limits.
Candidates_NoLimit(gen, limits) == 1..Len(gen)

\* Variant of the candidate test that is off by one.
Candidates_OffByOne(gen, limits) ==
  { n \in 1..Len(gen) : gen[n] <= limits[n] }

\* Step 3: the candidate parents.
Candidates(gen, limits) ==
  { n \in 1..Len(gen) : gen[n] + 1 <= limits[n] }

RECURSIVE ShuffleFrom(_, _)
\* Step 6: every outcome of shuffling each non-empty child list, from node i on.
ShuffleFrom(ch, i) ==
  IF i > Len(ch) THEN { ch }
  ELSE IF ch[i] = <<>> THEN ShuffleFrom(ch, i + 1)
  ELSE UNION { ShuffleFrom([ch EXCEPT ![i] = p], i + 1) : p \in Perms(Range(ch[i])) }

\* ------------------------------------------------------------------ verify_tree
AsymmetryOk(gen, ch, D) ==
  /\ Len(ch[1]) >= 2
  /\ LET child_depths == [i \in 1..Len(ch[1]) |-> get_max_depth(gen, ch, ch[1][i])]
     IN /\ Max(Range(child_depths)) = D
        /\ LET rest == RemoveFirst(child_depths, D)
           IN \E i \in 1..Len(rest) : 1 <= D - rest[i] /\ D - rest[i] <= 2

\* Variant of verify_tree without the relaxation for tight node counts.
verify_tree_NoRelax(gen, ch, N, D) ==
  /\ get_max_depth(gen, ch, 1) = D
  /\ count_nodes(ch, 1) = N
  /\ AsymmetryOk(gen, ch, D)

verify_tree(gen, ch, N, D) ==
  LET depth_ok == get_max_depth(gen, ch, 1) = D
      nodes_ok == count_nodes(ch, 1) = N
  IN IF N < 2 * D - 2 /\ depth_ok /\ nodes_ok THEN TRUE
     ELSE depth_ok /\ nodes_ok /\ AsymmetryOk(gen, ch, D)

\* ------------------------------------------------------------------ main: retry loop
\* Variant of the loop exit that never breaks.
BreaksLoop_Never(valid) == FALSE

\* `if is_valid: ... break`
BreaksLoop(valid) == valid

\* the file written for this configuration: root.to_dict of the current tree
TreeDump(valid) ==
  [attempt |-> attempt, generation |-> generation, children |-> children,
   valid |-> valid]

\* The kinship variables before any serialized tree is loaded.
KinIdle ==
  /\ data = <<>>
  /\ kpc = "idle"
  /\ nodes = {}
  /\ parent_map = <<>>
  /\ children_map = <<>>
  /\ spouse_map = <<>>
  /\ rels = <<>>
  /\ todo = {}
  /\ order = <<>>
  /\ first_rels = <<>>

\* No name or spouse is assigned before generate_tree's step 4.
NamesIdle ==
  /\ name_map = <<>>
  /\ node_spouse = <<>>

Init ==
  /\ KinIdle
  /\ NamesIdle
  /\ pc = "loop"
  /\ target_generations \in 1..MaxDepth
  /\ target_nodes \in 1..MaxNodes
  /\ attempt = 0
  /\ generation = <<>>
  /\ children = <<>>
  /\ node_depth_limits = <<>>
  /\ nodes_created = 0
  /\ asymmetry_target_depth = 0
  /\ random_draws = 0
  /\ results = <<>>
  /\ success = FALSE
  /\ written = <<>>

\* for attempt in range(max_retries): generate_tree(...) -- root and step 1
BeginAttempt ==
  /\ pc = "loop"
  /\ attempt < max_retries
  /\ attempt' = attempt + 1
  /\ generation' = MainBranchGenerations(target_generations)
  /\ children' = MainBranchChildren(target_generations)
  /\ node_depth_limits' = MainBranchLimits(target_generations)
  /\ nodes_created' = Len(generation')
  /\ asymmetry_target_depth' = 0
  /\ pc' = "asym"
  /\ UNCHANGED <<target_generations, target_nodes, random_draws, results,
                 success, written>>
  /\ UNCHANGED <<nameVars, kinVars>>

\* generate_tree step 2: choose A, grow the second chain when the budget allows
AsymmetryBranch ==
  /\ pc = "asym"
  /\ \E k \in {1, 2} :
       LET A == AsymmetryTargetDepth(target_generations, k)
           needed == A - 1
           n0 == nodes_created
       IN /\ asymmetry_target_depth' = A
          /\ IF HasBranchBudget(target_nodes, nodes_created, needed)
             THEN /\ generation' = generation \o [i \in 1..needed |-> i + 1]
                  /\ children' =
                       [children EXCEPT ![1] = Append(@, n0 + 1)]
                         \o [i \in 1..needed |->
                               IF i < needed THEN <<n0 + i + 1>> ELSE <<>>]
                  /\ node_depth_limits' =
                       node_depth_limits \o [i \in 1..needed |-> A]
                  /\ nodes_created' = nodes_created + needed
             ELSE UNCHANGED <<generation, children, node_depth_limits,
                              nodes_created>>
  /\ random_draws' = random_draws + 1
  /\ pc' = "fill"
  /\ UNCHANGED <<target_generations, target_nodes, attempt, results, success,
                 written>>
  /\ UNCHANGED <<nameVars, kinVars>>

\* generate_tree step 3, one iteration of the while loop
FillStep ==
  /\ pc = "fill"
  /\ nodes_created < target_nodes
  /\ Candidates(generation, node_depth_limits) # {}
  /\ \E parent \in Candidates(generation, node_depth_limits) :
       /\ generation' = Append(generation, generation[parent] + 1)
       /\ children' =
            Append([children EXCEPT ![parent] = Append(@, nodes_created + 1)], <<>>)
       /\ node_depth_limits' = Append(node_depth_limits, node_depth_limits[parent])
  /\ nodes_created' = nodes_created + 1
  /\ random_draws' = random_draws + 1
  /\ UNCHANGED <<pc, target_generations, target_nodes, attempt,
                 asymmetry_target_depth, results, success, written>>
  /\ UNCHANGED <<nameVars, kinVars>>

\* generate_tree step 3: the loop ends (count reached, or no candidate: break)
FillDone ==
  /\ pc = "fill"
  /\ \/ nodes_created >= target_nodes
     \/ Candidates(generation, node_depth_limits) = {}
  /\ pc' = "names"
  /\ UNCHANGED <<target_generations, target_nodes, attempt, generation,
                 children, node_depth_limits, nodes_created,
                 asymmetry_target_depth, random_draws, results, success, written>>
  /\ UNCHANGED <<nameVars, kinVars>>

\* generate_tree steps 4-5: shuffle of the name pool and one spouse draw per
\* node; the tree's shape is untouched.
AssignNames ==
  /\ pc = "names"
  /\ random_draws' = random_draws + 1 + nodes_created
  /\ pc' = "shuffle"
  /\ UNCHANGED <<target_generations, target_nodes, attempt, generation,
                 children, node_depth_limits, nodes_created,
                 asymmetry_target_depth, results, success, written>>
  /\ UNCHANGED <<nameVars, kinVars>>

\* generate_tree step 6: shuffle every non-empty child list, then return
ShuffleChildren ==
  /\ pc = "shuffle"
  /\ children' \in ShuffleFrom(children, 1)
  /\ random_draws' =
       random_draws + Cardinality({ n \in 1..Len(children) : children[n] # <<>> })
  /\ pc' = "verify"
  /\ UNCHANGED <<target_generations, target_nodes, attempt, generation,
                 node_depth_limits, nodes_created, asymmetry_target_depth,
                 results, success, written>>
  /\ UNCHANGED <<nameVars, kinVars>>

\* main: is_valid, stats = verify_tree(...); write and break when valid
Verify ==
  /\ pc = "verify"
  /\ LET is_valid ==
           verify_tree(generation, children, target_nodes, target_generations)
     IN /\ results' = Append(results, is_valid)
        /\ IF is_valid
           THEN /\ written' = Append(written, TreeDump(TRUE))
                /\ success' = TRUE
                /\ pc' = IF BreaksLoop(is_valid) THEN "after" ELSE "loop"
           ELSE /\ pc' = "loop"
                /\ UNCHANGED <<written, success>>
  /\ UNCHANGED <<target_generations, target_nodes, attempt, generation,
                 children, node_depth_limits, nodes_created,
                 asymmetry_target_depth, random_draws>>
  /\ UNCHANGED <<nameVars, kinVars>>

\* main: the for loop ran out of attempts
LoopExhausted ==
  /\ pc = "loop"
  /\ attempt >= max_retries
  /\ pc' = "after"
  /\ UNCHANGED <<target_generations, target_nodes, attempt, generation,
                 children, node_depth_limits, nodes_created,
                 asymmetry_target_depth, random_draws, results, success, written>>
  /\ UNCHANGED <<nameVars, kinVars>>

\* main: `if not success:` save the last tree anyway
AfterLoop ==
  /\ pc = "after"
  /\ IF ~success
     THEN written' = Append(written, TreeDump(FALSE))
     ELSE UNCHANGED written
  /\ pc' = "done"
  /\ UNCHANGED <<target_generations, target_nodes, attempt, generation,
                 children, node_depth_limits, nodes_created,
                 asymmetry_target_depth, random_draws, results, success>>
  /\ UNCHANGED <<nameVars, kinVars>>

Next ==
  \/ BeginAttempt
  \/ AsymmetryBranch
  \/ FillStep
  \/ FillDone
  \/ AssignNames
  \/ ShuffleChildren
  \/ Verify
  \/ LoopExhausted
  \/ AfterLoop

Spec == Init /\ [][Next]_vars

\* ------------------------------------------------------------------ claims on the generator
\* generate_tree has returned its tree for the current attempt.
Returned ==
  \/ pc \in {"verify", "after", "done"}
  \/ pc = "loop" /\ attempt > 0

RootChildDepth(i) == get_max_depth(generation, children, children[1][i])

\* C1: for D >= 2 and N >= D, whatever the random draws, the tree generate_tree
\* returns has exactly N individuals and maximum generation exactly D.
C1_ExactCountAndDepth ==
  (Returned /\ target_generations >= 2 /\ target_nodes >= target_generations)
    => /\ count_nodes(children, 1) = target_nodes
       /\ get_max_depth(generation, children, 1) = target_generations

C1_Witness ==
  /\ pc = "verify"
  /\ target_generations >= 3
  /\ target_nodes >= target_generations + 2
  /\ count_nodes(children, 1) = target_nodes
  /\ get_max_depth(generation, children, 1) = target_generations
  /\ Len(children[1]) >= 3

\* Some root child subtree ends at depth D-1 or D-2 while another reaches D,
\* and verify_tree's asymmetry test is satisfied.
StrictAsymmetry ==
  /\ AsymmetryOk(generation, children, target_generations)
  /\ \E i, j \in 1..Len(children[1]) :
       /\ i # j
       /\ RootChildDepth(i) = target_generations
       /\ RootChildDepth(j) \in {target_generations - 1, target_generations - 2}

\* C2 as written: for every D >= 2 and N >= 2D-2 the returned tree has a root
\* child subtree of depth D-1 or D-2 while another reaches D (asymmetry holds).
C2_AsymmetryFromDepth2 ==
  (Returned /\ target_generations >= 2
     /\ target_nodes >= 2 * target_generations - 2)
    => StrictAsymmetry

\* C2 amended: for every D >= 3 and N >= 2D-2 the returned tree has a root
\* child subtree of depth D-1 or D-2 while another reaches D, and verify_tree
\* reports asymmetry as satisfied.
C2_AsymmetryFromDepth3 ==
  (Returned /\ target_generations >= 3
     /\ target_nodes >= 2 * target_generations - 2)
    => StrictAsymmetry

C2_Witness ==
  /\ pc = "verify"
  /\ target_generations >= 3
  /\ target_nodes = 2 * target_generations - 2
  /\ asymmetry_target_depth = target_generations - 1
  /\ StrictAsymmetry

\* C3: a request with N < D is rejected before any random draw: no random
\* choice is made, no tree is built and no tree is serialized.
C3_RejectedBeforeDraw ==
  target_nodes < target_generations
    => /\ random_draws = 0
       /\ nodes_created = 0
       /\ written = <<>>

\* C4: the retry loop makes at most 20 attempts, stops at the first attempt
\* whose verification passes, and writes exactly one tree: that of the first
\* validated attempt, or, when all 20 fail, that of the 20th attempt marked as
\* failed; no tree of an earlier failed attempt is written.
C4_RetryLoop ==
  /\ attempt <= max_retries
  /\ Len(results) <= attempt
  /\ \A i \in 1..Len(results) : results[i] => i = Len(results)
  /\ Len(written) <= 1
  /\ written # <<>> =>
       LET w == written[1]
       IN /\ w.attempt = Len(results)
          /\ w.valid = results[w.attempt]
          /\ ~w.valid => w.attempt = max_retries
          /\ w.generation = generation /\ w.children = children
  /\ pc = "done" => Len(written) = 1

\* every attempt failed and the 20th tree was written as the fallback
C4_Witness ==
  /\ pc = "done"
  /\ Len(results) = max_retries
  /\ ~success
  /\ Len(written) = 1
  /\ written[1].attempt = max_retries
  /\ target_nodes >= target_generations

\* a first-attempt success was written
C4_WitnessSuccess ==
  /\ pc = "done"
  /\ success
  /\ written[1].attempt = 1

\* Largest target depth and node count of a request that is followed to the
\* end of main's retry loop.
LiveMaxDepth == 4
LiveMaxNodes == 6

\* main() asks for one tree
InitLive ==
  /\ KinIdle
  /\ NamesIdle
  /\ pc = "loop"
  /\ target_generations \in 1..LiveMaxDepth
  /\ target_nodes \in 1..LiveMaxNodes
  /\ attempt = 0
  /\ generation = <<>>
  /\ children = <<>>
  /\ node_depth_limits = <<>>
  /\ nodes_created = 0
  /\ asymmetry_target_depth = 0
  /\ random_draws = 0
  /\ results = <<>>
  /\ success = FALSE
  /\ written = <<>>

\* main runs to its end: a sequential program whose next step is always taken.
SpecLive == InitLive /\ [][Next]_vars /\ WF_vars(Next)

\* The request has D >= 3 and N >= D.
DeepEnough == target_generations >= 3 /\ target_nodes >= target_generations

\* C21: for every D >= 3 and N >= D, verify_tree returns True for every tree
\* generate_tree(D, N) produces, whatever the random draws: the retry loop
\* succeeds on its first attempt (and does reach that success), and the
\* fallback branch that saves an unverified tree is never taken.
C21_FirstAttemptSucceeds ==
  /\ [](DeepEnough =>
         /\ pc = "verify" =>
              verify_tree(generation, children, target_nodes, target_generations)
         /\ \A i \in 1..Len(results) : results[i]
         /\ attempt <= 1
         /\ pc \in {"after", "done"} => success
         /\ \A i \in 1..Len(written) : written[i].valid)
  /\ (DeepEnough /\ pc = "loop" /\ attempt = 0)
       ~> (pc = "done" /\ success /\ attempt = 1 /\ results = <<TRUE>>
             /\ Len(written) = 1)

\* a first attempt passed through the relaxation: too few nodes for a second
\* branch, no asymmetry, and the tree was written as verified
C21_Witness ==
  /\ pc = "done"
  /\ DeepEnough
  /\ target_nodes < 2 * target_generations - 2
  /\ ~AsymmetryOk(generation, children, target_generations)
  /\ attempt = 1
  /\ results = <<TRUE>>
  /\ written = <<TreeDump(TRUE)>>

\* ================================================================== kinship
\* ------------------------------------------------------------------ names
\* Display names of the individuals of a serialized tree, by position, and the
\* spouse name an individual carries when it has one.
IndividualNames == <<"R", "A", "B", "C", "D", "E", "F">>
SpouseNames == <<"R2", "A2", "B2", "0C", "D2", "0E", "F2">>

\* Every name above, in Python's string order.
SortedNames ==
  <<"0C", "0E", "A", "A2", "B", "B2", "C", "D", "D2", "E", "F", "F2", "R", "R2">>

Rank(name) == CHOOSE i \in 1..Len(SortedNames) : SortedNames[i] = name

\* Python's `a < b` on the names
NameLess(a, b) == Rank(a) < Rank(b)

\* ------------------------------------------------------------------ serialized trees
\* A serialized tree, flattened: node i is [name, parent, spouse]; parent is
\* the position of the node whose "children" list holds i (0 for the root),
\* spouse is "" when the node has no "spouse" key. The "children" list of a
\* node holds its children by increasing position.
ChildList(t, i) ==
  LET kids == { j \in 1..Len(t) : t[j].parent = i }
      RECURSIVE Sorted(_)
      Sorted(S) ==
        IF S = {} THEN <<>>
        ELSE LET m == CHOOSE x \in S : \A y \in S : x <= y
             IN <<m>> \o Sorted(S \ {m})
  IN Sorted(kids)

\* Parent positions of the trees with n individuals.
Shapes(n) ==
  { p \in [1..n -> 0..(n - 1)] :
      /\ p[1] = 0
      /\ \A i \in 2..n : p[i] >= 1 /\ p[i] < i /\ p[i - 1] <= p[i] }

\* The serialized trees of at most maxInd individuals with pairwise distinct
\* names, at most maxSp of them married.
TreeInputs(maxInd, maxSp) ==
  UNION { UNION { { [i \in 1..n |->
                      [name |-> IndividualNames[i],
                       parent |-> p[i],
                       spouse |-> IF i \in married THEN SpouseNames[i] ELSE ""]]
                    : married \in { m \in SUBSET (1..n) : Cardinality(m) <= maxSp } }
                  : p \in Shapes(n) }
          : n \in 1..maxInd }

\* ------------------------------------------------------------------ dictionaries
\* dict.get(key, default)
Get(m, key, default) == IF key \in DOMAIN m THEN m[key] ELSE default

\* m[key] = value
Put(m, key, value) ==
  [x \in (DOMAIN m) \cup {key} |-> IF x = key THEN value ELSE m[x]]

\* ------------------------------------------------------------------ build_graph
\* The name carried by a node that has no "name" key.
Missing == "<no name key>"

\* raised: a KeyError left build_graph, which then returns nothing.
EmptyGraph ==
  [nodes |-> {}, parent_map |-> <<>>, children_map |-> <<>>, spouse_map |-> <<>>,
   raised |-> FALSE]

\* traverse(node), up to the loop over the children; node["name"] raises
\* KeyError when the key is missing
VisitNode(t, i, g) ==
  IF t[i].name = Missing THEN [g EXCEPT !.raised = TRUE]
  ELSE
  LET name == t[i].name
      spouse == t[i].spouse
      sm == IF spouse # "" THEN Put(Put(g.spouse_map, name, spouse), spouse, name)
            ELSE g.spouse_map
      cm1 == IF name \notin DOMAIN g.children_map
             THEN Put(g.children_map, name, {}) ELSE g.children_map
      cm2 == IF name \in DOMAIN sm /\ sm[name] \notin DOMAIN cm1
             THEN Put(cm1, sm[name], {}) ELSE cm1
  IN [g EXCEPT !.nodes = @ \cup {name} \cup (IF spouse # "" THEN {spouse} ELSE {}),
               !.children_map = cm2,
               !.spouse_map = sm]

\* Variant that records the child under its parents but not the parents
\* under the child's spouse-side entry of parent_map.
LinkChild_NoSpouseParent(t, i, c, g) ==
  LET name == t[i].name
      child_name == t[c].name
      married == name \in DOMAIN g.spouse_map
      cm1 == Put(g.children_map, name, Get(g.children_map, name, {}) \cup {child_name})
      cm2 == IF married
             THEN Put(cm1, g.spouse_map[name],
                      Get(cm1, g.spouse_map[name], {}) \cup {child_name})
             ELSE cm1
      ps == Get(g.parent_map, child_name, {}) \cup {name}
  IN IF child_name = Missing THEN [g EXCEPT !.raised = TRUE]
     ELSE [g EXCEPT !.children_map = cm2,
                    !.parent_map = Put(g.parent_map, child_name, ps)]

\* the body of `for child in children`, before the recursive call;
\* child["name"] and children_map[...] raise KeyError on a missing key
LinkChild(t, i, c, g) ==
  LET name == t[i].name
      child_name == t[c].name
      married == name \in DOMAIN g.spouse_map
      cm1 == Put(g.children_map, name, Get(g.children_map, name, {}) \cup {child_name})
      cm2 == IF married
             THEN Put(cm1, g.spouse_map[name],
                      Get(cm1, g.spouse_map[name], {}) \cup {child_name})
             ELSE cm1
      ps == Get(g.parent_map, child_name, {}) \cup {name}
             \cup (IF married THEN {g.spouse_map[name]} ELSE {})
  IN IF \/ child_name = Missing
        \/ name \notin DOMAIN g.children_map
        \/ married /\ g.spouse_map[name] \notin DOMAIN g.children_map
     THEN [g EXCEPT !.raised = TRUE]
     ELSE [g EXCEPT !.children_map = cm2,
                    !.parent_map = Put(g.parent_map, child_name, ps)]

RECURSIVE traverse(_, _, _)
RECURSIVE TraverseChildren(_, _, _, _)
\* `for child in children`: link the child, then traverse(child); an
\* exception ends the whole traversal
TraverseChildren(t, i, kids, g) ==
  IF kids = <<>> \/ g.raised THEN g
  ELSE LET linked == LinkChild(t, i, Head(kids), g)
       IN IF linked.raised THEN linked
          ELSE TraverseChildren(t, i, Tail(kids), traverse(t, Head(kids), linked))

traverse(t, i, g) ==
  LET visited == VisitNode(t, i, g)
  IN IF visited.raised THEN visited
     ELSE TraverseChildren(t, i, ChildList(t, i), visited)

build_graph(t) == traverse(t, 1, EmptyGraph)

\* ------------------------------------------------------------------ find_relationships
EmptyRels ==
  [CHILD |-> {}, PARENT |-> {}, SPOUSE |-> {}, SIBLING |-> {},
   GRANDCHILD |-> {}, GRANDPARENT |-> {}, UNCLE_OR_AUNT |-> {},
   NEPHEW_OR_NIECE |-> {}, GREAT_GRANDCHILD |-> {}, GREAT_GRANDPARENT |-> {},
   COUSIN |-> {}]

get_parents(pm, p) == Get(pm, p, {})
get_children(cm, p) == Get(cm, p, {})
\* spouse_map.get(p); None is modelled by "" (both are falsy)
get_spouse(sm, p) == Get(sm, p, "")

\* Variant recording only the (person, spouse) orientation.
AddSpouse_OneWay(r, person, spouse) ==
  IF spouse # "" /\ NameLess(person, spouse)
  THEN [r EXCEPT !.SPOUSE = @ \cup {<<person, spouse>>}]
  ELSE r

\* Variant without the `if spouse:` test.
AddSpouse_NoNoneTest(r, person, spouse) ==
  [r EXCEPT !.SPOUSE = @ \cup {<<person, spouse>>, <<spouse, person>>}]

\* SPOUSE
AddSpouse(r, person, spouse) ==
  IF spouse # "" /\ NameLess(person, spouse)
  THEN [r EXCEPT !.SPOUSE = @ \cup {<<person, spouse>>, <<spouse, person>>}]
  ELSE r

\* Variant that forgets the CHILD side.
AddParentChild_NoChild(r, person, kids) ==
  [r EXCEPT !.PARENT = @ \cup { <<person, kid>> : kid \in kids }]

\* PARENT / CHILD
AddParentChild(r, person, kids) ==
  [r EXCEPT !.PARENT = @ \cup { <<person, kid>> : kid \in kids },
            !.CHILD = @ \cup { <<kid, person>> : kid \in kids }]

\* Variant that keeps the person among its own siblings.
Siblings_KeepSelf(cm, parents, person) ==
  UNION { get_children(cm, parent) : parent \in parents }

\* SIBLING: children of the parents, the person removed
Siblings(cm, parents, person) ==
  (UNION { get_children(cm, parent) : parent \in parents }) \ {person}

Grandparents(pm, parents) == UNION { get_parents(pm, parent) : parent \in parents }

GreatGrandparents(pm, grandparents) ==
  UNION { get_parents(pm, gp) : gp \in grandparents }

\* One pass of the inner loop `for pp in p_parents` of the UNCLE_OR_AUNT block:
\* p_siblings is the set stored in children_map (when pp is a key), so the
\* discard changes children_map itself.
UncleStep(sm, parent, pp, st) ==
  LET p_siblings == get_children(st.children_map, pp) \ {parent}
      cm == IF pp \in DOMAIN st.children_map
            THEN [st.children_map EXCEPT ![pp] = p_siblings]
            ELSE st.children_map
      by_marriage == { get_spouse(sm, u) : u \in { v \in p_siblings : get_spouse(sm, v) # "" } }
  IN [children_map |-> cm,
      uncles_aunts |-> st.uncles_aunts \cup p_siblings \cup by_marriage]

RECURSIVE UncleLoop(_, _, _)
\* The outcomes of the nested loops over the (parent, pp) pairs, for every
\* order in which the sets can be iterated.
UncleLoop(sm, pairs, st) ==
  IF pairs = {} THEN { st }
  ELSE UNION { UncleLoop(sm, pairs \ {pr}, UncleStep(sm, pr[1], pr[2], st))
               : pr \in pairs }

\* COUSIN: children of the parents' siblings, read from children_map as it
\* stands after the UNCLE_OR_AUNT block
Cousins(pm, cm, parents) ==
  UNION { UNION { UNION { get_children(cm, p_sibling)
                          : p_sibling \in get_children(cm, gp) \ {parent} }
                  : gp \in get_parents(pm, parent) }
          : parent \in parents }

\* The relation table after one pass of `for person in nodes`, given the
\* outcome st of the UNCLE_OR_AUNT block.
PersonRels(r, person, pm, cm, sm, st) ==
  LET parents == get_parents(pm, person)
      r1 == AddSpouse(r, person, get_spouse(sm, person))
      r2 == AddParentChild(r1, person, get_children(cm, person))
      siblings == IF parents # {} THEN Siblings(cm, parents, person) ELSE {}
      grandparents == Grandparents(pm, parents)
      great_grandparents == GreatGrandparents(pm, grandparents)
      cousins == Cousins(pm, st.children_map, parents)
  IN [r2 EXCEPT
        !.SIBLING = @ \cup { <<person, sib>> : sib \in siblings },
        !.GRANDCHILD = @ \cup { <<person, gp>> : gp \in grandparents },
        !.GRANDPARENT = @ \cup { <<gp, person>> : gp \in grandparents },
        !.GREAT_GRANDCHILD = @ \cup { <<person, ggp>> : ggp \in great_grandparents },
        !.GREAT_GRANDPARENT = @ \cup { <<ggp, person>> : ggp \in great_grandparents },
        !.NEPHEW_OR_NIECE = @ \cup { <<person, ua>> : ua \in st.uncles_aunts },
        !.UNCLE_OR_AUNT = @ \cup { <<ua, person>> : ua \in st.uncles_aunts },
        !.COUSIN = @ \cup { <<person, coz>> : coz \in cousins }]

\* The (parent, pp) pairs the UNCLE_OR_AUNT block visits for person.
UnclePairs(pm, person) ==
  UNION { { <<parent, pp>> : pp \in get_parents(pm, parent) }
          : parent \in get_parents(pm, person) }

\* One iteration of `for person in nodes`: the new rels and children_map.
VisitPerson(person) ==
  \E st \in UncleLoop(spouse_map, UnclePairs(parent_map, person),
                      [children_map |-> children_map, uncles_aunts |-> {}]) :
    /\ rels' = PersonRels(rels, person, parent_map, children_map, spouse_map, st)
    /\ children_map' = st.children_map

TreeIdle ==
  /\ NamesIdle
  /\ pc = "idle"
  /\ target_generations = 0
  /\ target_nodes = 0
  /\ attempt = 0
  /\ generation = <<>>
  /\ children = <<>>
  /\ node_depth_limits = <<>>
  /\ nodes_created = 0
  /\ asymmetry_target_depth = 0
  /\ random_draws = 0
  /\ results = <<>>
  /\ success = FALSE
  /\ written = <<>>

KinLoaded(inputs) ==
  /\ data \in inputs
  /\ kpc = "build"
  /\ nodes = {}
  /\ parent_map = <<>>
  /\ children_map = <<>>
  /\ spouse_map = <<>>
  /\ rels = <<>>
  /\ todo = {}
  /\ order = <<>>
  /\ first_rels = <<>>

\* process_file: data loaded from one JSON file
InitKin == TreeIdle /\ KinLoaded(TreeInputs(MaxIndividuals, MaxSpouses))

\* process_file: nodes, parent_map, children_map, spouse_map = build_graph(data);
\* find_relationships starts with empty lists
BuildGraph ==
  /\ kpc = "build"
  /\ LET g == build_graph(data)
     IN IF g.raised
        THEN /\ kpc' = "raised"
             /\ UNCHANGED <<nodes, parent_map, children_map, spouse_map, todo, rels>>
        ELSE /\ nodes' = g.nodes
             /\ parent_map' = g.parent_map
             /\ children_map' = g.children_map
             /\ spouse_map' = g.spouse_map
             /\ todo' = g.nodes
             /\ rels' = EmptyRels
             /\ kpc' = "find"
  /\ UNCHANGED <<data, order, first_rels>>
  /\ UNCHANGED <<treeVars, nameVars>>

\* find_relationships: one iteration of `for person in nodes`
FindStep ==
  /\ kpc = "find"
  /\ \E person \in todo :
       /\ VisitPerson(person)
       /\ todo' = todo \ {person}
  /\ UNCHANGED <<data, kpc, nodes, parent_map, spouse_map, order, first_rels>>
  /\ UNCHANGED <<treeVars, nameVars>>

\* find_relationships: the loop is over; every list is de-duplicated (the
\* lists are kept here as sets of pairs) and the table is returned
FindDone ==
  /\ kpc = "find"
  /\ todo = {}
  /\ kpc' = "done"
  /\ UNCHANGED <<data, nodes, parent_map, children_map, spouse_map, rels, todo,
                 order, first_rels>>
  /\ UNCHANGED <<treeVars, nameVars>>

NextKin ==
  \/ BuildGraph
  \/ FindStep
  \/ FindDone

SpecKin == InitKin /\ [][NextKin]_vars

\* ------------------------------------------------------------------ running the engine twice
InitTwice == TreeIdle /\ KinLoaded(TreeInputs(TwiceMaxIndividuals, MaxSpouses))

\* first call, one iteration of `for person in nodes`; the set's iteration
\* order is remembered, for a set that is not modified is iterated in the same
\* order again
FirstCallStep ==
  /\ kpc = "find"
  /\ \E person \in todo :
       /\ VisitPerson(person)
       /\ todo' = todo \ {person}
       /\ order' = Append(order, person)
  /\ UNCHANGED <<data, kpc, nodes, parent_map, spouse_map, first_rels>>
  /\ UNCHANGED <<treeVars, nameVars>>

\* the first call returns its table; the second call starts on the same
\* nodes, parent_map, children_map and spouse_map objects
SecondCallBegins ==
  /\ kpc = "find"
  /\ todo = {}
  /\ first_rels' = rels
  /\ rels' = EmptyRels
  /\ todo' = nodes
  /\ kpc' = "find2"
  /\ UNCHANGED <<data, nodes, parent_map, children_map, spouse_map, order>>
  /\ UNCHANGED <<treeVars, nameVars>>

\* second call, one iteration of `for person in nodes`, in the same order
SecondCallStep ==
  /\ kpc = "find2"
  /\ todo # {}
  /\ LET person == order[Len(order) - Cardinality(todo) + 1]
     IN /\ VisitPerson(person)
        /\ todo' = todo \ {person}
  /\ UNCHANGED <<data, kpc, nodes, parent_map, spouse_map, order, first_rels>>
  /\ UNCHANGED <<treeVars, nameVars>>

\* the second call returns its table
SecondCallDone ==
  /\ kpc = "find2"
  /\ todo = {}
  /\ kpc' = "done2"
  /\ UNCHANGED <<data, nodes, parent_map, children_map, spouse_map, rels, todo,
                 order, first_rels>>
  /\ UNCHANGED <<treeVars, nameVars>>

NextTwice ==
  \/ BuildGraph
  \/ FirstCallStep
  \/ SecondCallBegins
  \/ SecondCallStep
  \/ SecondCallDone

SpecTwice == InitTwice /\ [][NextTwice]_vars

\* ------------------------------------------------------------------ claims on the kinship engine
Inverse(P, Q) ==
  /\ \A pr \in P : <<pr[2], pr[1]>> \in Q
  /\ \A pr \in Q : <<pr[2], pr[1]>> \in P

Symmetric(P) == \A pr \in P : <<pr[2], pr[1]>> \in P

Irreflexive(P) == \A pr \in P : pr[1] # pr[2]

Started == kpc \in {"find", "done"}

\* C5: in the relation table, whatever the graph and the order in which the
\* individuals are processed, PARENT/CHILD, GRANDPARENT/GRANDCHILD,
\* GREAT_GRANDPARENT/GREAT_GRANDCHILD and UNCLE_OR_AUNT/NEPHEW_OR_NIECE are
\* exact inverses of each other.
C5_DirectionalInverses ==
  Started =>
    /\ Inverse(rels.PARENT, rels.CHILD)
    /\ Inverse(rels.GRANDPARENT, rels.GRANDCHILD)
    /\ Inverse(rels.GREAT_GRANDPARENT, rels.GREAT_GRANDCHILD)
    /\ Inverse(rels.UNCLE_OR_AUNT, rels.NEPHEW_OR_NIECE)

C5_Witness ==
  /\ kpc = "done"
  /\ rels.PARENT # {}
  /\ rels.GREAT_GRANDPARENT # {}
  /\ rels.UNCLE_OR_AUNT # {}
  /\ Inverse(rels.PARENT, rels.CHILD)
  /\ Inverse(rels.UNCLE_OR_AUNT, rels.NEPHEW_OR_NIECE)

\* C6: for every graph built from a tree with pairwise distinct names and
\* every processing order, the returned SIBLING and COUSIN relations are
\* symmetric.
C6_SiblingCousinSymmetric ==
  kpc = "done" => Symmetric(rels.SIBLING) /\ Symmetric(rels.COUSIN)

\* C7: for every graph built from a tree with pairwise distinct names, the
\* relation table never contains (x,x) in SIBLING or in COUSIN.
C7_SiblingCousinIrreflexive ==
  Started => Irreflexive(rels.SIBLING) /\ Irreflexive(rels.COUSIN)

C7_Witness ==
  /\ kpc = "done"
  /\ rels.SIBLING # {}
  /\ rels.COUSIN # {}
  /\ Irreflexive(rels.SIBLING)
  /\ Irreflexive(rels.COUSIN)

\* The married couples of the serialized tree, as (individual, spouse) pairs.
Couples == { <<data[i].name, data[i].spouse>> : i \in { j \in 1..Len(data) : data[j].spouse # "" } }

\* C8: for every graph built from a tree with pairwise distinct names, SPOUSE
\* is symmetric, the returned table holds both orientations of every married
\* couple, and no individual is the subject of more than one SPOUSE pair.
C8_SpouseSymmetricFunctional ==
  Started =>
    /\ Symmetric(rels.SPOUSE)
    /\ \A pr, qr \in rels.SPOUSE : pr[1] = qr[1] => pr[2] = qr[2]
    /\ kpc = "done" =>
         \A c \in Couples : <<c[1], c[2]>> \in rels.SPOUSE /\ <<c[2], c[1]>> \in rels.SPOUSE

\* a couple whose spouse name sorts before the individual's name
C8_Witness ==
  /\ kpc = "done"
  /\ \E c \in Couples :
       /\ NameLess(c[2], c[1])
       /\ <<c[1], c[2]>> \in rels.SPOUSE
       /\ <<c[2], c[1]>> \in rels.SPOUSE

\* C9: running find_relationships twice in succession on the same graph
\* objects yields identical relation tables, kind by kind.
C9_SecondRunIdentical ==
  kpc = "done2" => rels = first_rels

\* The worked example: root R with children A and B, B has spouse B2, A has
\* child C.
WorkedExample ==
  << [name |-> "R", parent |-> 0, spouse |-> ""],
     [name |-> "A", parent |-> 1, spouse |-> ""],
     [name |-> "B", parent |-> 1, spouse |-> "B2"],
     [name |-> "C", parent |-> 2, spouse |-> ""] >>

\* C10: on the worked example, for every processing order, the table holds
\* PARENT (R,A), (R,B), (A,C); CHILD (A,R), (B,R); SPOUSE (B,B2), (B2,B);
\* SIBLING (A,B), (B,A); GRANDPARENT (R,C); GRANDCHILD (C,R);
\* UNCLE_OR_AUNT (B,C), (B2,C); NEPHEW_OR_NIECE (C,B), (C,B2).
C10_WorkedExample ==
  (data = WorkedExample /\ kpc = "done") =>
    /\ {<<"R", "A">>, <<"R", "B">>, <<"A", "C">>} \subseteq rels.PARENT
    /\ {<<"A", "R">>, <<"B", "R">>} \subseteq rels.CHILD
    /\ {<<"B", "B2">>, <<"B2", "B">>} \subseteq rels.SPOUSE
    /\ {<<"A", "B">>, <<"B", "A">>} \subseteq rels.SIBLING
    /\ {<<"R", "C">>} \subseteq rels.GRANDPARENT
    /\ {<<"C", "R">>} \subseteq rels.GRANDCHILD
    /\ {<<"B", "C">>, <<"B2", "C">>} \subseteq rels.UNCLE_OR_AUNT
    /\ {<<"C", "B">>, <<"C", "B2">>} \subseteq rels.NEPHEW_OR_NIECE

\* ------------------------------------------------------------------ build_graph on arbitrary trees
\* Largest number of individuals in a serialized tree whose names may
\* collide, be missing, or equal the node's own spouse.
BuildMaxIndividuals == 3

\* The serialized trees of at most maxInd nodes, each with a name among "A",
\* "B" or no name at all, and with no spouse or a spouse among "A", "B", "C".
AnyTreeInputs(maxInd) ==
  UNION { UNION { { [i \in 1..n |->
                      [name |-> nm[i], parent |-> p[i], spouse |-> sp[i]]]
                    : nm \in [1..n -> {"A", "B", Missing}],
                      sp \in [1..n -> {"", "A", "B", "C"}] }
                  : p \in Shapes(n) }
          : n \in 1..maxInd }

InitBuild == TreeIdle /\ KinLoaded(AnyTreeInputs(BuildMaxIndividuals))

NextBuild == BuildGraph

SpecBuild == InitBuild /\ [][NextBuild]_vars

\* Every name that occurs in the serialized tree.
DataNames ==
  { data[i].name : i \in 1..Len(data) } \cup { data[i].spouse : i \in 1..Len(data) }

\* C11: for every serialized tree given to build_graph, the returned
\* parent_map and children_map are exact inverses: c is in children_map[p]
\* iff p is in parent_map[c], for all names p and c.
C11_ParentChildInverse ==
  kpc = "find" =>
    \A p, c \in DataNames \cup DOMAIN parent_map \cup DOMAIN children_map :
      (c \in Get(children_map, p, {})) <=> (p \in Get(parent_map, c, {}))

\* a returned graph of a tree with a repeated name and a married parent
C11_Witness ==
  /\ kpc = "find"
  /\ \E i, j \in 1..Len(data) : i # j /\ data[i].name = data[j].name
  /\ \E c \in DOMAIN parent_map : Cardinality(parent_map[c]) = 2
  /\ \A p, c \in DataNames :
       (c \in Get(children_map, p, {})) <=> (p \in Get(parent_map, c, {}))

\* C14: build_graph fails, returning no graph, whenever the input tree holds
\* a node without a name or a node whose spouse is the node's own name.
C14_MalformedRejected ==
  (kpc # "build"
     /\ \E i \in 1..Len(data) :
          data[i].name = Missing \/ data[i].spouse = data[i].name)
    => kpc = "raised"

\* ------------------------------------------------------------------ a name absent from the graph
\* Largest tree used when find_relationships is handed one more name.
AbsentMaxIndividuals == 4

\* A name that occurs nowhere in parent_map, children_map or spouse_map.
AbsentName == "Z"

\* find_relationships(nodes | {AbsentName}, parent_map, children_map,
\* spouse_map) is entered, the maps being those build_graph returned
InitAbsent ==
  /\ TreeIdle
  /\ data \in TreeInputs(AbsentMaxIndividuals, MaxSpouses)
  /\ LET g == build_graph(data)
     IN /\ nodes = g.nodes \cup {AbsentName}
        /\ parent_map = g.parent_map
        /\ children_map = g.children_map
        /\ spouse_map = g.spouse_map
        /\ todo = g.nodes \cup {AbsentName}
  /\ rels = EmptyRels
  /\ kpc = "find"
  /\ order = <<>>
  /\ first_rels = <<>>

NextAbsent ==
  \/ FindStep
  \/ FindDone

SpecAbsent == InitAbsent /\ [][NextAbsent]_vars

Involves(name) ==
  { k \in DOMAIN rels : \E pr \in rels[k] : pr[1] = name \/ pr[2] = name }

\* C15: for a name passed among the individuals but absent from parent_map,
\* children_map and spouse_map, find_relationships completes and its table
\* holds no pair involving that name, for any of the eleven kinds.
C15_AbsentNameHasNoPairs ==
  (Started /\ AbsentName \in nodes) =>
    /\ Involves(AbsentName) = {}
    /\ (todo = {} /\ kpc = "find") => ENABLED FindDone

\* the call returned a non-empty table after visiting the absent name
C15_Witness ==
  /\ kpc = "done"
  /\ AbsentName \in nodes
  /\ rels.PARENT # {}
  /\ rels.SPOUSE # {}
  /\ Involves(AbsentName) = {}

\* ------------------------------------------------------------------ the table against the input graph
\* The graph as build_graph returned it, before find_relationships ran.
InputGraph == build_graph(data)

\* The parent-child edges of the input graph, as (parent, child) pairs.
InputParentPairs ==
  UNION { { <<p, c>> : c \in InputGraph.children_map[p] }
          : p \in DOMAIN InputGraph.children_map }

\* (u, p) such that, in the input graph, u is a sibling of a parent of p or
\* the spouse of such a sibling.
InputUnclePairs ==
  LET pm == InputGraph.parent_map
      cm == InputGraph.children_map
      sm == InputGraph.spouse_map
      blood(p) ==
        UNION { UNION { get_children(cm, gp) \ {par} : gp \in get_parents(pm, par) }
                : par \in get_parents(pm, p) }
  IN UNION { { <<u, p>> : u \in blood(p) \cup
                           { get_spouse(sm, b) : b \in { x \in blood(p) : get_spouse(sm, x) # "" } } }
             : p \in InputGraph.nodes }

\* C16: for every graph built by build_graph and every processing order,
\* PARENT is exactly the set of (p,c) with c in children_map[p] of the graph
\* as passed in, and CHILD is its inverse; no edge is missing.
C16_ParentTableExact ==
  kpc = "done" =>
    /\ rels.PARENT = InputParentPairs
    /\ Inverse(rels.PARENT, rels.CHILD)

\* C17: for every graph built from a tree with distinct names and every
\* processing order, (u,p) is in UNCLE_OR_AUNT exactly when u is a sibling of
\* a parent of p in the input graph or the spouse of such a sibling;
\* NEPHEW_OR_NIECE is the inverse.
C17_UncleTableExact ==
  kpc = "done" =>
    /\ rels.UNCLE_OR_AUNT = InputUnclePairs
    /\ Inverse(rels.UNCLE_OR_AUNT, rels.NEPHEW_OR_NIECE)

\* C20: find_relationships leaves its inputs unchanged: after it returns,
\* parent_map, children_map, spouse_map and nodes hold what they held before
\* the call.
C20_InputsUnchanged ==
  kpc = "done" =>
    /\ nodes = InputGraph.nodes
    /\ parent_map = InputGraph.parent_map
    /\ children_map = InputGraph.children_map
    /\ spouse_map = InputGraph.spouse_map

\* ------------------------------------------------------------------ more claims on the generator
\* C18: with target depth D = 1, generate_tree returns a single root with no
\* children for every N >= 1: no individual of generation 2 or more is ever
\* created.
C18_DepthOneSingleRoot ==
  (target_generations = 1 /\ target_nodes >= 1) =>
    \A n \in 1..Len(generation) : generation[n] < 2

\* The node whose child list holds n.
ParentOf(n) == CHOOSE p \in 1..Len(children) : n \in Range(children[p])

RECURSIVE Subtree(_)
\* n and all its descendants
Subtree(n) == {n} \cup UNION { Subtree(c) : c \in Range(children[n]) }

\* Step 2 has run in the current tree and grew the secondary chain.
SecondaryGrown ==
  /\ asymmetry_target_depth # 0
  /\ HasBranchBudget(target_nodes, target_generations, asymmetry_target_depth - 1)

\* Number of nodes the chains of steps 1 and 2 created.
ChainNodes ==
  target_generations + (IF SecondaryGrown THEN asymmetry_target_depth - 1 ELSE 0)

\* C19: at every step of generate_tree with D >= 2, every created individual
\* n has n.generation <= node_depth_limits[n] <= D; every individual in the
\* subtree of the secondary chain carries the limit A = max(2, D - k), k in
\* {1,2}, and that subtree never exceeds generation A; a child attached in
\* the fill step has its parent's generation plus one and its parent's limit.
C19_DepthLimits ==
  target_generations >= 2 =>
    /\ \A n \in 1..Len(generation) :
         /\ generation[n] <= node_depth_limits[n]
         /\ node_depth_limits[n] <= target_generations
    /\ asymmetry_target_depth # 0 =>
         \E k \in {1, 2} :
           asymmetry_target_depth = Max({2, target_generations - k})
    /\ SecondaryGrown =>
         \A n \in Subtree(target_generations + 1) :
           /\ node_depth_limits[n] = asymmetry_target_depth
           /\ generation[n] <= asymmetry_target_depth
    /\ (pc # "asym" /\ Len(generation) > 0) =>
         \A n \in (ChainNodes + 1)..Len(generation) :
           /\ generation[n] = generation[ParentOf(n)] + 1
           /\ node_depth_limits[n] = node_depth_limits[ParentOf(n)]

\* a fill child sits inside the secondary subtree, below the main depth
C19_Witness ==
  /\ pc = "verify"
  /\ target_generations >= 4
  /\ SecondaryGrown
  /\ \E n \in (ChainNodes + 1)..Len(generation) :
       /\ n \in Subtree(target_generations + 1)
       /\ node_depth_limits[n] = asymmetry_target_depth
       /\ generation[n] = generation[ParentOf(n)] + 1
       /\ node_depth_limits[n] < target_generations

\* ------------------------------------------------------------------ names
\* Largest target depth and node count of a request whose names are followed
\* into the serialized tree.
NamesMaxDepth == 3
NamesMaxNodes == 4

\* NAMES, cut down to six of its 79 entries and kept in the pool's order:
\* two names the pool lists once (QingFeng, AnNing: its first two entries) and
\* the two names it lists twice, each with both entries (HeGuang at lines 60
\* and 90, HeShun at lines 78 and 89 of generate_trees.py). Names are
\* romanised.
NAMES == <<"QingFeng", "AnNing", "HeGuang", "HeShun", "HeShun", "HeGuang">>

RECURSIVE Repeat(_, _)
\* available_names * multiplier
Repeat(s, k) == IF k <= 0 THEN <<>> ELSE s \o Repeat(s, k - 1)

\* available_names = NAMES[:]; random.shuffle(available_names): every order
\* of the pool's entries
ShuffledNames ==
  { [i \in 1..Len(NAMES) |-> NAMES[p[i]]] : p \in Perms(1..Len(NAMES)) }

\* if len(available_names) < target_nodes: multiply the list
AvailableNames(shuffled, N) ==
  IF Len(shuffled) < N
  THEN Repeat(shuffled, (N \div Len(shuffled)) + 1)
  ELSE shuffled

\* final_names = available_names[:target_nodes];
\* name_map = {i: name for i, name in enumerate(final_names)}
FinalNames(available, N) ==
  SubSeq(available, 1, IF N <= Len(available) THEN N ELSE Len(available))

\* remaining_names = available_names[target_nodes:]
RemainingNames(available, N) == SubSeq(available, N + 1, Len(available))

RECURSIVE AssignSpouses(_, _, _, _)
\* Step 5 from node n on, `count` nodes in current_nodes: yes holds the nodes
\* whose random.random() falls under the probability. Gives the spouse of
\* every node from n on ("" for none) and the number of random() calls made.
AssignSpouses(n, count, remaining, yes) ==
  IF n > count THEN [spouses |-> <<>>, draws |-> 0]
  ELSE IF remaining = <<>>
       THEN [spouses |-> [i \in 1..(count - n + 1) |-> ""], draws |-> 0]
       ELSE IF n \in yes
            THEN LET rest == AssignSpouses(n + 1, count,
                               SubSeq(remaining, 1, Len(remaining) - 1), yes)
                 IN [spouses |-> <<remaining[Len(remaining)]>> \o rest.spouses,
                     draws |-> 1 + rest.draws]
            ELSE LET rest == AssignSpouses(n + 1, count, remaining, yes)
                 IN [spouses |-> <<"">> \o rest.spouses,
                     draws |-> 1 + rest.draws]

RECURSIVE Preorder(_, _)
RECURSIVE PreorderEach(_, _)
\* The nodes in the order Node.to_dict visits them, from node n down.
Preorder(ch, n) == <<n>> \o PreorderEach(ch, ch[n])

\* [child.to_dict(name_map) for child in self.children]
PreorderEach(ch, kids) ==
  IF kids = <<>> THEN <<>>
  ELSE Preorder(ch, Head(kids)) \o PreorderEach(ch, Tail(kids))

\* root.to_dict(name_map): the serialized tree, in the layout ChildList reads;
\* raised is the KeyError of name_map[self.name_idx] for a node without a
\* name.
to_dict(ch, nm, sp) ==
  LET po == Preorder(ch, 1)
      pos(id) == CHOOSE i \in 1..Len(po) : po[i] = id
      par(id) == CHOOSE p \in 1..Len(ch) : id \in Range(ch[p])
      raised == \E i \in 1..Len(po) : po[i] > Len(nm)
  IN [raised |-> raised,
      tree |-> IF raised THEN <<>>
               ELSE [i \in 1..Len(po) |->
                       [name |-> nm[po[i]],
                        parent |-> IF po[i] = 1 THEN 0 ELSE pos(par(po[i])),
                        spouse |-> sp[po[i]]]]]

\* main() asks for one tree
InitNames ==
  /\ KinIdle
  /\ NamesIdle
  /\ pc = "loop"
  /\ target_generations \in 1..NamesMaxDepth
  /\ target_nodes \in 1..NamesMaxNodes
  /\ attempt = 0
  /\ generation = <<>>
  /\ children = <<>>
  /\ node_depth_limits = <<>>
  /\ nodes_created = 0
  /\ asymmetry_target_depth = 0
  /\ random_draws = 0
  /\ results = <<>>
  /\ success = FALSE
  /\ written = <<>>

\* generate_tree steps 4-5 with the names they hand out
AssignNamesAndSpouses ==
  /\ pc = "names"
  /\ \E shuffled \in ShuffledNames, yes \in SUBSET (1..Len(generation)) :
       LET available == AvailableNames(shuffled, target_nodes)
           given == AssignSpouses(1, Len(generation),
                                  RemainingNames(available, target_nodes), yes)
       IN /\ name_map' = FinalNames(available, target_nodes)
          /\ node_spouse' = given.spouses
          /\ random_draws' = random_draws + 1 + given.draws
  /\ pc' = "shuffle"
  /\ UNCHANGED <<target_generations, target_nodes, attempt, generation,
                 children, node_depth_limits, nodes_created,
                 asymmetry_target_depth, results, success, written>>
  /\ UNCHANGED kinVars

\* tree_dict = root.to_dict(name_map), then process_file loading the dump
ToDict ==
  /\ pc = "verify"
  /\ kpc = "idle"
  /\ LET d == to_dict(children, name_map, node_spouse)
     IN IF d.raised
        THEN /\ pc' = "crashed"
             /\ UNCHANGED <<data, kpc>>
        ELSE /\ pc' = "dumped"
             /\ data' = d.tree
             /\ kpc' = "build"
  /\ UNCHANGED <<target_generations, target_nodes, attempt, generation,
                 children, node_depth_limits, nodes_created,
                 asymmetry_target_depth, random_draws, results, success,
                 written>>
  /\ UNCHANGED nameVars
  /\ UNCHANGED <<nodes, parent_map, children_map, spouse_map, rels, todo, order,
                 first_rels>>

NextNames ==
  \/ BeginAttempt
  \/ AsymmetryBranch
  \/ FillStep
  \/ FillDone
  \/ AssignNamesAndSpouses
  \/ ShuffleChildren
  \/ ToDict
  \/ BuildGraph

SpecNames == InitNames /\ [][NextNames]_vars

\* C13: when N does not exceed the number of entries of NAMES, the names
\* generate_tree gives the individuals are pairwise distinct, and every spouse
\* name differs from every individual's name and from every other spouse name.
C13_NamesDistinct ==
  (pc \in {"shuffle", "verify", "dumped", "crashed"} /\ target_nodes <= Len(NAMES)) =>
    /\ \A i, j \in 1..Len(name_map) : i # j => name_map[i] # name_map[j]
    /\ \A i \in 1..Len(node_spouse) :
         node_spouse[i] # "" =>
           /\ \A j \in 1..Len(name_map) : name_map[j] # node_spouse[i]
           /\ \A j \in 1..Len(node_spouse) : j # i => node_spouse[j] # node_spouse[i]

\* C12: the graph build_graph returns for a tree serialized by to_dict has a
\* symmetric spouse map and no individual that is its own parent, child or
\* spouse.
C12_GraphWellFormed ==
  (pc = "dumped" /\ kpc = "find") =>
    /\ \A a \in DOMAIN spouse_map :
         /\ spouse_map[a] \in DOMAIN spouse_map
         /\ spouse_map[spouse_map[a]] = a
         /\ spouse_map[a] # a
    /\ \A a \in DOMAIN parent_map : a \notin parent_map[a]
    /\ \A a \in DOMAIN children_map : a \notin children_map[a]

====
